---- MODULE Spec2Model ----
(***************************************************************************)
(* simple-lang-stats: the percentage normalizer                            *)
(* (calculateLanguagePercentages), the aggregation and weighting step      *)
(* (fetchTopLanguages), the README patcher (updateReadme), the styles and  *)
(* the row colours of the worker's SVG, and the three delivery surfaces    *)
(* (the action's run, the worker's fetch handler, the local script's run). *)
(*                                                                         *)
(* Numbers.  Percentages are kept in hundredths of a percent (100.00% is   *)
(* 10000), so toFixed(2) is a rounding to an integer.  The code computes   *)
(* in IEEE doubles; the model computes the same quantities as exact        *)
(* rationals over the common denominator totalSize.  On the input sets     *)
(* used here (Sizes, up to MaxLangs + 1 languages) the two agree entry by  *)
(* entry.  A mapping is a sequence of entries in insertion order, which is *)
(* the order Object.entries and Object.keys enumerate it in.               *)
(***************************************************************************)
EXTENDS Integers, Sequences, FiniteSets, TLC

VARIABLES
    languageStats,   \* the mapping handed to calculateLanguagePercentages
    totalSize,       \* its second argument
    work,            \* the locals of calculateLanguagePercentages after the call
    languageData,    \* the sequence it returned
    normPc,          \* "ready" before the call, "returned" after it
    fetchArgs,       \* the arguments of a call of fetchTopLanguages and the
                     \* GraphQL response it gets
    fetched,         \* what the call returned or threw
    fetchPc,         \* "ready" before the call, "returned" after it
    surface,         \* the delivery surface that is running: "action",
                     \* "worker", "local", or "none"
    pc,              \* "idle", "awaitUser", "awaitGraphQL" or "done"
    input,           \* the inputs of the run (action inputs, request, env)
    requests,        \* the requests sent to the GitHub API so far
    outcome,         \* how the run ended: the response, or the failure
                     \* and the outputs set
    readmeFile,      \* the README file: whether it can be read, and its text
    readmeCall,      \* the latest call of updateReadme: its statsHTML
                     \* argument, the text it read, how it ended, the
                     \* number of calls so far and the text the first read
    svgArgs,         \* the style, night mode and number of languages the
                     \* worker renders
    svg              \* what it rendered: the style sheet rows and the
                     \* class of every language entry

normVars == <<languageStats, totalSize, work, languageData, normPc>>

fetchVars == <<fetchArgs, fetched, fetchPc>>

runVars == <<surface, pc, input, requests, outcome>>

readmeVars == <<readmeFile, readmeCall>>

svgVars == <<svgArgs, svg>>

vars == <<languageStats, totalSize, work, languageData, normPc,
          fetchArgs, fetched, fetchPc,
          surface, pc, input, requests, outcome,
          readmeFile, readmeCall, svgArgs, svg>>

----------------------------------------------------------------------------
(* Bounds of the model *)

\* the most languages a mapping given to the normalizer holds
MaxLangs == 5

\* sizes of the entries of a directly supplied mapping
Sizes == {0, 1, 29, 38, 999999}

\* the key of the i-th inserted entry
LangNames == <<"A", "B", "C", "D", "E", "F", "G">>

\* the most repositories a GraphQL response holds
MaxRepos == 2

\* the names of the repositories of a response, in the order returned
RepoNames == <<"r1", "r2", "r3", "r4">>

\* the languages and sizes of the edges of a repository
EdgeLangs == {"TS", "JS"}

EdgeSizes == {0, 3, 7}

\* the exponents a caller of fetchTopLanguages passes
SizeWeights == {1, 2}

CountWeights == {0, 1}

\* the most repositories of a response in a run of a delivery surface
MaxRunRepos == 2

\* the edge lists of a repository in a run of a delivery surface
RunEdgeLists ==
    {<<>>,
     <<[name |-> "TS", size |-> 0]>>,
     <<[name |-> "TS", size |-> 4]>>,
     <<[name |-> "JS", size |-> 6]>>,
     <<[name |-> "TS", size |-> 4], [name |-> "JS", size |-> 6]>>}

\* user names and GITHUB_REPOSITORY values, as sequences of characters;
\* userStatus 0 in the inputs of a run stands for no user lookup answered yet
Usernames == {<<>>, <<"a">>, <<"a", "-", "b">>, <<"-", "a">>}

\* the username parts of the paths of the requests to the worker
WorkerUsernames == {<<"a">>, <<"a", "-", "b">>, <<"-", "a">>, <<"a", "/", "b">>}

Repositories == {<<>>, <<"o", "/", "r">>, <<"/", "r">>}

\* the statuses of the response to GET /users/{username}
UserStatuses == {200, 401, 403, 404, 500}

\* before any call of updateReadme, and before anything is rendered
NoReadmeCall ==
    [pc |-> "ready", statsHTML |-> <<>>, readmeContent |-> <<>>,
     failed |-> FALSE, written |-> FALSE, calls |-> 0, original |-> <<>>]

ReadmeIdle ==
    /\ readmeFile = [readable |-> FALSE, text |-> <<>>]
    /\ readmeCall = NoReadmeCall

NoSvg ==
    [pc |-> "ready", useCustomColors |-> FALSE, style |-> "", colors |-> <<>>,
     rows |-> <<>>, classes |-> <<>>, fills |-> <<>>]

SvgIdle ==
    /\ svgArgs = [styleName |-> "", nightMode |-> FALSE, count |-> 0]
    /\ svg = NoSvg

----------------------------------------------------------------------------
(* Arithmetic helpers *)

Abs(x) == IF x < 0 THEN -x ELSE x

Sign(x) == IF x > 0 THEN 1 ELSE IF x < 0 THEN -1 ELSE 0

RECURSIVE SumSizes(_)
SumSizes(seq) == IF seq = <<>> THEN 0 ELSE seq[1].size + SumSizes(Tail(seq))

RECURSIVE SumRounded(_)
SumRounded(seq) == IF seq = <<>> THEN 0 ELSE seq[1].rounded + SumRounded(Tail(seq))

RECURSIVE SumPercentage(_)
SumPercentage(seq) ==
    IF seq = <<>> THEN 0 ELSE seq[1].percentage + SumPercentage(Tail(seq))

----------------------------------------------------------------------------
(* calculateLanguagePercentages *)

\* 100 as a count of hundredths of a percent
Hundred == 10000

\* Math.abs(difference) > 0.01, in hundredths
DiffThreshold == 1

\* One more decimal digit of size / total: long division, so that no
\* intermediate product leaves the range of the integers in use.
ScaleStep(qr, total) ==
    [q |-> qr.q * 10 + (qr.r * 10) \div total, r |-> (qr.r * 10) % total]

\* a variant without the factor 100: size / totalSize, in hundredths
RawPercentageUnscaled(size, total) ==
    ScaleStep(ScaleStep([q |-> size \div total, r |-> size % total], total), total)

\* (size / totalSize) * 100 in hundredths: q = floor(size * 10000 / total),
\* r = the numerator left over (size * 10000 = q * total + r).
RawPercentage(size, total) ==
    ScaleStep(ScaleStep(ScaleStep(ScaleStep(
        [q |-> size \div total, r |-> size % total], total), total), total), total)

\* a variant that rounds up instead of to nearest
ToFixed2Ceil(size, total) ==
    LET p == RawPercentage(size, total)
    IN  IF p.r > 0 THEN p.q + 1 ELSE p.q

\* parseFloat(percentage.toFixed(2)): the nearest hundredth, a tie going up
ToFixed2(size, total) ==
    LET p == RawPercentage(size, total)
    IN  IF 2 * p.r >= total THEN p.q + 1 ELSE p.q

\* percentage - rounded, as a numerator over totalSize (in hundredths)
Remainder(size, total) ==
    RawPercentage(size, total).r - (ToFixed2(size, total) - RawPercentage(size, total).q) * total

\* One insertion of the stable sort by (a, b) => b.size - a.size: e goes
\* behind every element that is not smaller.
InsertBySize(sorted, e) ==
    LET k == Cardinality({i \in 1..Len(sorted) : sorted[i].size >= e.size})
    IN  SubSeq(sorted, 1, k) \o <<e>> \o SubSeq(sorted, k + 1, Len(sorted))

RECURSIVE SortBySizeFrom(_, _)
SortBySizeFrom(sorted, rest) ==
    IF rest = <<>> THEN sorted
    ELSE SortBySizeFrom(InsertBySize(sorted, rest[1]), Tail(rest))

\* Object.entries(languageStats).sort(([, a], [, b]) => b.size - a.size)
SortedEntries(stats) == SortBySizeFrom(<<>>, stats)

\* rawPercentages and roundedData: one record per sorted entry.  With
\* totalSize = 0 the quotient 0 / 0 is NaN and so is everything derived.
RoundedData(stats, total) ==
    LET entries == SortedEntries(stats)
    IN  [i \in 1..Len(entries) |->
            [language  |-> entries[i].name,
             size      |-> entries[i].size,
             nan       |-> total = 0,
             rounded   |-> IF total = 0 THEN 0 ELSE ToFixed2(entries[i].size, total),
             remainder |-> IF total = 0 THEN 0 ELSE Remainder(entries[i].size, total)]]

\* parseFloat((100 - sumRounded).toFixed(2)); NaN is carried by IsNaN
Difference(rd) == Hundred - SumRounded(rd)

IsNaN(rd) == \E i \in 1..Len(rd) : rd[i].nan

\* a guard that also runs the pass for a difference of exactly 0.01
AdjustEnteredAlways(rd) == ~IsNaN(rd) /\ Abs(Difference(rd)) >= 0

\* a guard that runs the pass from a difference of 0.01 on
AdjustEnteredAtThreshold(rd) == ~IsNaN(rd) /\ Abs(Difference(rd)) >= DiffThreshold

\* if (Math.abs(difference) > 0.01); a comparison with NaN is false
AdjustEntered(rd) == ~IsNaN(rd) /\ Abs(Difference(rd)) > DiffThreshold

\* an insertion that leaves the copy in the order of roundedData, which is
\* the order of descending size
InsertInSizeOrder(rd, order, i) == Append(order, i)

\* One insertion of the stable sort (a, b) => b.remainder - a.remainder,
\* on indices into roundedData (the copy shares the item objects).
InsertByRemainder(rd, order, i) ==
    LET k == Cardinality({j \in 1..Len(order) : rd[order[j]].remainder >= rd[i].remainder})
    IN  SubSeq(order, 1, k) \o <<i>> \o SubSeq(order, k + 1, Len(order))

RECURSIVE SortByRemainderFrom(_, _, _)
SortByRemainderFrom(rd, order, i) ==
    IF i > Len(rd) THEN order
    ELSE SortByRemainderFrom(rd, InsertByRemainder(rd, order, i), i + 1)

\* [...roundedData].sort((a, b) => b.remainder - a.remainder)
SortedByRemainder(rd) == SortByRemainderFrom(rd, <<>>, 1)

\* a loop that adjusts every item and never recomputes remainingDifference
RECURSIVE AdjustLoopNoRecompute(_, _, _, _)
AdjustLoopNoRecompute(rd, order, k, remaining) ==
    IF k > Len(order) \/ remaining = 0
    THEN [rd |-> rd, remaining |-> remaining, visited |-> k - 1]
    ELSE AdjustLoopNoRecompute([rd EXCEPT ![order[k]].rounded = @ + Sign(remaining)],
                               order, k + 1, remaining)

\* for (const item of sortedByRemainder) { if (|remaining| < 0.001) break; ... }
RECURSIVE AdjustLoop(_, _, _, _)
AdjustLoop(rd, order, k, remaining) ==
    IF k > Len(order) \/ remaining = 0
    THEN [rd |-> rd, remaining |-> remaining, visited |-> k - 1]
    ELSE AdjustLoop([rd EXCEPT ![order[k]].rounded = @ + Sign(remaining)],
                    order, k + 1, remaining - Sign(remaining))

\* the locals of one call, after the adjustment block
Locals(stats, total) ==
    LET rd      == RoundedData(stats, total)
        entered == AdjustEntered(rd)
        order   == IF entered THEN SortedByRemainder(rd) ELSE <<>>
        loop    == IF entered
                   THEN AdjustLoop(rd, order, 1, Difference(rd))
                   ELSE [rd |-> rd, remaining |-> Difference(rd), visited |-> 0]
    IN  [initial    |-> rd,
         nan        |-> IsNaN(rd),
         difference |-> Difference(rd),
         entered    |-> entered,
         order      |-> order,
         final      |-> loop.rd,
         remaining  |-> loop.remaining,
         visited    |-> loop.visited]

\* a return that hands out the entries in the order of the adjustment copy
ReturnedInRemainderOrder(w) ==
    LET ord  == IF w.entered THEN w.order ELSE [i \in 1..Len(w.final) |-> i]
        all  == [k \in 1..Len(ord) |-> w.final[ord[k]]]
        kept == SelectSeq(all, LAMBDA item : ~item.nan /\ item.rounded > 0)
    IN  [i \in 1..Len(kept) |->
            [language |-> kept[i].language, size |-> kept[i].size,
             percentage |-> kept[i].rounded]]

\* a return without the filter
ReturnedUnfiltered(w) ==
    [i \in 1..Len(w.final) |->
        [language |-> w.final[i].language, size |-> w.final[i].size,
         percentage |-> w.final[i].rounded]]

\* roundedData.filter(item => item.rounded > 0).map(...)
Returned(w) ==
    LET kept == SelectSeq(w.final, LAMBDA item : ~item.nan /\ item.rounded > 0)
    IN  [i \in 1..Len(kept) |->
            [language |-> kept[i].language, size |-> kept[i].size,
             percentage |-> kept[i].rounded]]

NoLocals ==
    [initial |-> <<>>, nan |-> FALSE, difference |-> 0, entered |-> FALSE,
     order |-> <<>>, final |-> <<>>, remaining |-> 0, visited |-> 0]

\* every mapping of up to MaxLangs entries with sizes in Sizes, keyed in
\* insertion order
Mappings ==
    UNION {[1..n -> Sizes] : n \in 0..MaxLangs}

AsStats(f) ==
    [i \in 1..Len(f) |-> [name |-> LangNames[i], size |-> f[i], count |-> 1]]

NormInit ==
    /\ \E f \in Mappings : languageStats = AsStats(f)
    /\ totalSize = SumSizes(languageStats)
    /\ work = NoLocals
    /\ languageData = <<>>
    /\ normPc = "ready"
    /\ fetchArgs = [response |-> [status |-> 200, errors |-> "none", message |-> <<>>, nodes |-> <<>>],
                    excludeRepos |-> {}, sizeWeight |-> 1, countWeight |-> 0]
    /\ fetched = [ok |-> FALSE, error |-> <<>>, languages |-> <<>>, totalRepos |-> 0]
    /\ fetchPc = "ready"
    /\ surface = "none"
    /\ pc = "idle"
    /\ input = [username |-> <<>>]
    /\ requests = <<>>
    /\ outcome = [kind |-> "none"]
    /\ ReadmeIdle
    /\ SvgIdle

\* a call that sorts the entries of the mapping it was given in place
NormalizeInPlace ==
    /\ normPc = "ready"
    /\ work' = Locals(languageStats, totalSize)
    /\ languageData' = Returned(work')
    /\ normPc' = "returned"
    /\ languageStats' = SortedEntries(languageStats)
    /\ UNCHANGED <<totalSize, fetchVars, runVars, readmeVars, svgVars>>

\* a call calculateLanguagePercentages(languageStats, totalSize)
Normalize ==
    /\ normPc = "ready"
    /\ work' = Locals(languageStats, totalSize)
    /\ languageData' = Returned(work')
    /\ normPc' = "returned"
    /\ UNCHANGED <<languageStats, totalSize, fetchVars, runVars, readmeVars, svgVars>>

NormNext == Normalize

SpecNorm == NormInit /\ [][NormNext]_vars

----------------------------------------------------------------------------
(* fetchTopLanguages *)

\* Math.pow for a natural exponent
RECURSIVE Pow(_, _)
Pow(base, exp) == IF exp = 0 THEN 1 ELSE base * Pow(base, exp - 1)

\* the position of langName among the keys of languageStats, 0 if absent
KeyIndex(stats, langName) ==
    IF \E i \in 1..Len(stats) : stats[i].name = langName
    THEN CHOOSE i \in 1..Len(stats) : stats[i].name = langName
    ELSE 0

\* a body that counts an edge whatever its size
AddEdgeAnySize(stats, edge) ==
    IF KeyIndex(stats, edge.name) # 0
    THEN [stats EXCEPT ![KeyIndex(stats, edge.name)] =
             [@ EXCEPT !.size = @ + edge.size, !.count = @ + 1]]
    ELSE Append(stats, [name |-> edge.name, size |-> edge.size, count |-> 1])

\* the body of repo.languages.edges.forEach for one edge
AddEdge(stats, edge) ==
    IF edge.size <= 0 THEN stats
    ELSE IF KeyIndex(stats, edge.name) # 0
         THEN [stats EXCEPT ![KeyIndex(stats, edge.name)] =
                  [@ EXCEPT !.size = @ + edge.size, !.count = @ + 1]]
         ELSE Append(stats, [name |-> edge.name, size |-> edge.size, count |-> 1])

RECURSIVE AddEdges(_, _)
AddEdges(stats, edges) ==
    IF edges = <<>> THEN stats
    ELSE AddEdges(AddEdge(stats, edges[1]), Tail(edges))

\* repoNodes.filter(edges.length > 0).forEach(repo => edges.forEach(...))
RECURSIVE AddRepos(_, _)
AddRepos(stats, repos) ==
    IF repos = <<>> THEN stats
    ELSE AddRepos(IF Len(repos[1].edges) > 0
                  THEN AddEdges(stats, repos[1].edges)
                  ELSE stats,
                  Tail(repos))

\* repoNodes.filter((repo) => !repoToHide[repo.name])
VisibleRepos(nodes, excludeRepos) ==
    SelectSeq(nodes, LAMBDA repo : repo.name \notin excludeRepos)

\* a weighting with the two exponents exchanged
WeightedSizeSwapped(lang, sizeWeight, countWeight) ==
    Pow(lang.size, countWeight) * Pow(lang.count, sizeWeight)

\* Math.pow(lang.size, sizeWeight) * Math.pow(lang.count, countWeight)
WeightedSize(lang, sizeWeight, countWeight) ==
    Pow(lang.size, sizeWeight) * Pow(lang.count, countWeight)

\* Object.keys(languageStats).forEach: lang.size = the weighted size
ApplyWeights(stats, sizeWeight, countWeight) ==
    [i \in 1..Len(stats) |->
        [stats[i] EXCEPT !.size = WeightedSize(stats[i], sizeWeight, countWeight)]]

\* filteredLanguageStats: the entries with lang.size > 0, in key order
FilterPositive(stats) == SelectSeq(stats, LAMBDA lang : lang.size > 0)

\* An error message is the sequence of its words, a full stop or a colon
\* being a word of its own; <<>> stands for no message.
\* firstError.message || fallback
MessageOr(message, fallback) == IF message # <<>> THEN message ELSE fallback

\* the message of the error thrown for a response, <<>> if none is thrown
FetchError(response) ==
    IF response.status # 200
    THEN IF response.status = 403
         THEN <<"GitHub", "API", "rate", "limit", "exceeded", ".", "Please", "try", "again", "later">>
         ELSE IF response.status = 401
         THEN <<"GitHub", "API", "authentication", "failed", ".", "Please", "check", "your", "GitHub", "token">>
         ELSE <<"GitHub", "GraphQL", "API", "error", ":">>
    ELSE IF response.errors = "NOT_FOUND"
    THEN MessageOr(response.message, <<"Could", "not", "fetch", "user", ".">>)
    ELSE IF response.errors = "OTHER"
    THEN MessageOr(response.message, <<"GraphQL", "API", "error">>)
    ELSE <<>>

\* fetchTopLanguages once the GraphQL response is in
FetchTopLanguages(response, excludeRepos, sizeWeight, countWeight) ==
    IF FetchError(response) # <<>>
    THEN [ok |-> FALSE, error |-> FetchError(response),
          languages |-> <<>>, totalRepos |-> 0]
    ELSE LET repoNodes == VisibleRepos(response.nodes, excludeRepos)
             summed    == AddRepos(<<>>, repoNodes)
         IN  [ok |-> TRUE, error |-> <<>>,
              languages |-> FilterPositive(ApplyWeights(summed, sizeWeight, countWeight)),
              totalRepos |-> Len(repoNodes)]

\* the edge lists of one repository: each language at most once
EdgeLists ==
    {<<>>}
    \cup {<<[name |-> l, size |-> z]>> : l \in EdgeLangs, z \in EdgeSizes}
    \cup {<<[name |-> l1, size |-> z1], [name |-> l2, size |-> z2]>> :
            <<l1, l2, z1, z2>> \in
                {t \in EdgeLangs \X EdgeLangs \X EdgeSizes \X EdgeSizes : t[1] # t[2]}}

\* the repository lists of a response: up to max repositories, named in order
RepoLists(max, edgeLists) ==
    UNION {{[i \in 1..n |-> [name |-> RepoNames[i], edges |-> f[i]]] :
                f \in [1..n -> edgeLists]} : n \in 0..max}

\* the messages of the first error of a GraphQL response with errors
GraphQLMessages ==
    {<<>>,
     <<"Could", "not", "resolve", "to", "a", "User">>,
     <<"API", "rate", "limit", "exceeded", "for", "user">>,
     <<"Resource", "not", "found">>}

\* the GraphQL responses: an HTTP failure, a GraphQL error (the type and the
\* message of the first one), or data
Responses(repoLists) ==
    {[status |-> st, errors |-> "none", message |-> <<>>, nodes |-> <<>>] :
        st \in {401, 403, 500}}
    \cup {[status |-> 200, errors |-> e, message |-> m, nodes |-> <<>>] :
            e \in {"NOT_FOUND", "OTHER"}, m \in GraphQLMessages}
    \cup {[status |-> 200, errors |-> "none", message |-> <<>>, nodes |-> n] :
            n \in repoLists}

NoFetch == [ok |-> FALSE, error |-> <<>>, languages |-> <<>>, totalRepos |-> 0]

NormIdle ==
    /\ languageStats = <<>>
    /\ totalSize = 0
    /\ work = NoLocals
    /\ languageData = <<>>
    /\ normPc = "ready"

FetchIdle ==
    /\ fetchArgs = [response |-> [status |-> 200, errors |-> "none", message |-> <<>>, nodes |-> <<>>],
                    excludeRepos |-> {}, sizeWeight |-> 1, countWeight |-> 0]
    /\ fetched = NoFetch
    /\ fetchPc = "ready"

RunIdle ==
    /\ surface = "none"
    /\ pc = "idle"
    /\ input = [username |-> <<>>]
    /\ requests = <<>>
    /\ outcome = [kind |-> "none"]

FetchInit ==
    /\ NormIdle
    /\ RunIdle
    /\ ReadmeIdle
    /\ SvgIdle
    /\ \E r \in Responses(RepoLists(MaxRepos, EdgeLists)), x \in {{}, {"r1"}},
          sw \in SizeWeights, cw \in CountWeights :
            fetchArgs = [response |-> r, excludeRepos |-> x,
                         sizeWeight |-> sw, countWeight |-> cw]
    /\ fetched = NoFetch
    /\ fetchPc = "ready"

\* a call fetchTopLanguages(username, token, excludeRepos, sizeWeight, countWeight)
FetchCall ==
    /\ fetchPc = "ready"
    /\ fetched' = FetchTopLanguages(fetchArgs.response, fetchArgs.excludeRepos,
                                    fetchArgs.sizeWeight, fetchArgs.countWeight)
    /\ fetchPc' = "returned"
    /\ UNCHANGED <<fetchArgs, normVars, runVars, readmeVars, svgVars>>

FetchNext == FetchCall

SpecFetch == FetchInit /\ [][FetchNext]_vars

\* what a caller does with the result of fetchTopLanguages, here for any
\* weights: stop if languageStats is empty, else sum totalSize and call
\* calculateLanguagePercentages(languageStats, totalSize)
NormalizeFetched ==
    /\ fetchPc = "returned"
    /\ fetched.ok
    /\ Len(fetched.languages) # 0
    /\ normPc = "ready"
    /\ languageStats' = fetched.languages
    /\ totalSize' = SumSizes(languageStats')
    /\ work' = Locals(languageStats', totalSize')
    /\ languageData' = Returned(work')
    /\ normPc' = "returned"
    /\ UNCHANGED <<fetchVars, runVars, readmeVars, svgVars>>

WeightedNext ==
    \/ FetchCall
    \/ NormalizeFetched

SpecWeighted == FetchInit /\ [][WeightedNext]_vars

----------------------------------------------------------------------------
(* updateReadme of main.ts.  A text is a sequence of pieces: a marker is   *)
(* one piece (neither marker is part of the other, and no end of one is a  *)
(* start of the other, so indexOf finds a marker exactly where a piece is  *)
(* that marker), any other piece stands for text that holds no marker.     *)
(* Indices are the code's, from 0.                                         *)

startMarker == "<!-- simple-lang-stats -->"

endMarker == "<!-- /simple-lang-stats -->"

\* the longest README text, in pieces
MaxReadme == 4

\* the most runs of updateReadme on one README
MaxCalls == 2

\* the pieces a README is made of
ReadmePieces == {startMarker, endMarker, "x", "y"}

\* the rendered statistics handed to updateReadme
StatsHTMLs == {<<"<table/>">>, <<"<table>", "</table>">>}

\* readmeContent.indexOf(marker): the first position, -1 if there is none
IndexOf(text, marker) ==
    IF \E i \in 1..Len(text) : text[i] = marker
    THEN (CHOOSE i \in 1..Len(text) :
              /\ text[i] = marker
              /\ \A j \in 1..(i - 1) : text[j] # marker) - 1
    ELSE -1

\* text.slice(from, to) and text.slice(from)
Slice(text, from, to) == SubSeq(text, from + 1, to)

SliceFrom(text, from) == SubSeq(text, from + 1, Len(text))

\* newContent, for a text that holds the start marker
NewContent(readmeContent, statsHTML) ==
    LET startIndex == IndexOf(readmeContent, startMarker)
        endIndex   == IndexOf(readmeContent, endMarker)
    IN  IF endIndex = -1
        THEN Slice(readmeContent, 0, startIndex + 1)
                 \o <<"\n">> \o statsHTML \o <<"\n", endMarker>>
                 \o SliceFrom(readmeContent, startIndex + 1)
        ELSE Slice(readmeContent, 0, startIndex + 1)
                 \o <<"\n">> \o statsHTML \o <<"\n">>
                 \o SliceFrom(readmeContent, endIndex)

\* updateReadme that makes up for a missing start marker by writing the
\* markers and the statistics at the end of the file
UpdateReadmeAppending(file, statsHTML) ==
    IF ~file.readable
    THEN [text |-> file.text, failed |-> TRUE, written |-> FALSE]
    ELSE IF IndexOf(file.text, startMarker) = -1
    THEN [text |-> file.text \o <<startMarker, "\n">> \o statsHTML \o <<"\n", endMarker>>,
          failed |-> TRUE, written |-> TRUE]
    ELSE [text |-> NewContent(file.text, statsHTML), failed |-> FALSE, written |-> TRUE]

\* updateReadme(readmePath, statsHTML) on a file: the text the file holds
\* afterwards, whether core.setFailed was called and whether the file was
\* written.  readFileSync throws on a file that cannot be read.
UpdateReadme(file, statsHTML) ==
    IF ~file.readable
    THEN [text |-> file.text, failed |-> TRUE, written |-> FALSE]
    ELSE IF IndexOf(file.text, startMarker) = -1
    THEN [text |-> file.text, failed |-> TRUE, written |-> FALSE]
    ELSE [text |-> NewContent(file.text, statsHTML), failed |-> FALSE, written |-> TRUE]

\* every text of up to max pieces
ReadmeTexts(max) == UNION {[1..n -> ReadmePieces] : n \in 0..max}

ReadmeInit ==
    /\ NormIdle
    /\ FetchIdle
    /\ RunIdle
    /\ SvgIdle
    /\ \/ readmeFile = [readable |-> FALSE, text |-> <<>>]
       \/ \E text \in ReadmeTexts(MaxReadme) : readmeFile = [readable |-> TRUE, text |-> text]
    /\ \E statsHTML \in StatsHTMLs : readmeCall = [NoReadmeCall EXCEPT !.statsHTML = statsHTML]

\* a call updateReadme(readmePath, statsHTML), the first or a later one
\* with the same statistics on the file the call before left
UpdateReadmeCall ==
    /\ readmeCall.calls < MaxCalls
    /\ LET u == UpdateReadme(readmeFile, readmeCall.statsHTML)
       IN  /\ readmeFile' = [readmeFile EXCEPT !.text = u.text]
           /\ readmeCall' = [pc |-> "returned", statsHTML |-> readmeCall.statsHTML,
                             readmeContent |-> readmeFile.text,
                             failed |-> u.failed, written |-> u.written,
                             calls |-> readmeCall.calls + 1,
                             original |-> IF readmeCall.calls = 0 THEN readmeFile.text
                                          ELSE readmeCall.original]
    /\ UNCHANGED <<normVars, fetchVars, runVars, svgVars>>

ReadmeNext == UpdateReadmeCall

SpecReadme == ReadmeInit /\ [][ReadmeNext]_vars

----------------------------------------------------------------------------
(* The styles (style-helper.ts) and the rows of the worker's SVG.  A style *)
(* name is a string, "" standing for an absent ?style= parameter           *)
(* (undefined); a colour is the string the code holds, "undefined" when    *)
(* the code reads an array element that is not there.                      *)

PRESET_STYLES ==
    [default     |-> <<>>,
     github      |-> <<"#1f77b4", "#ff7f0e", "#2ca02c", "#d62728", "#9467bd", "#8c564b", "#e377c2">>,
     ocean       |-> <<"#006994", "#4A90E2", "#7ED321", "#F5A623", "#D0021B", "#50E3C2", "#B8E986">>,
     sunset      |-> <<"#FF6B6B", "#FFE66D", "#FF8E53", "#C44569", "#F8B500", "#FF1744", "#6C5CE7">>,
     forest      |-> <<"#27AE60", "#2ECC71", "#58D68D", "#82E0AA", "#52C41A", "#95DE64", "#D3F261">>,
     midnight    |-> <<"#2C3E50", "#34495E", "#5D6D7E", "#85929E", "#AEB6BF", "#D5DBDB", "#F8F9FA">>,
     pastel      |-> <<"#FFB3BA", "#FFDFBA", "#FFFFBA", "#BAFFC9", "#BAE1FF", "#E0BBE4", "#FFC9DE">>,
     tech        |-> <<"#61DAFB", "#4FC08D", "#F7DF1E", "#E34F26", "#1572B6", "#CC6699", "#000000">>,
     nature      |-> <<"#8FBC8F", "#228B22", "#32CD32", "#7CFC00", "#ADFF2F", "#9ACD32", "#6B8E23">>,
     monochrome  |-> <<"#000000", "#2F2F2F", "#5F5F5F", "#808080", "#AFAFAF", "#DFDFDF", "#FFFFFF">>,
     warm        |-> <<"#FF6347", "#FFA500", "#FFD700", "#FF69B4", "#FF1493", "#DC143C", "#B22222">>,
     cool        |-> <<"#00CED1", "#20B2AA", "#48D1CC", "#40E0D0", "#00FFFF", "#87CEEB", "#87CEFA">>,
     vintage     |-> <<"#8B4513", "#A0522D", "#CD853F", "#D2691E", "#F4A460", "#DEB887", "#F5DEB3">>,
     neon        |-> <<"#FF073A", "#39FF14", "#FF10F0", "#00FFFF", "#FFFF00", "#FF8C00", "#FF69B4">>,
     earth       |-> <<"#8B4513", "#228B22", "#4682B4", "#FFD700", "#FF4500", "#9932CC", "#DC143C">>,
     duo         |-> <<"#FF6B6B", "#4ECDC4">>,
     trio        |-> <<"#E74C3C", "#F39C12", "#2ECC71">>,
     quad        |-> <<"#9B59B6", "#3498DB", "#1ABC9C", "#F1C40F">>,
     penta       |-> <<"#E67E22", "#E74C3C", "#9B59B6", "#3498DB", "#2ECC71">>,
     hex         |-> <<"#34495E", "#95A5A6", "#F39C12", "#D35400", "#C0392B", "#8E44AD">>,
     pride       |-> <<"#E40303", "#FF8C00", "#FFED00", "#008018", "#732982", "#004CFF">>,
     transgender |-> <<"#5BCEFA", "#F5A9B8">>]

\* defaultColors of getStyleConfig
defaultColors ==
    <<"#3572A5", "#f1e05a", "#e34c26", "#563d7c", "#b07219", "#701516", "#00ADD8">>

\* the names the worker's help text lists after "Available styles:"
AvailableStyles ==
    {"default", "github", "ocean", "sunset", "forest", "midnight", "rainbow",
     "pastel", "tech", "nature", "monochrome", "warm", "cool", "vintage", "neon",
     "earth", "duo", "trio", "quad", "penta", "hex", "pride", "transgender"}

\* the style names a request carries: none, a listed one, or another
StyleNames == {"", "bogus"} \cup AvailableStyles

\* the most languages the worker renders
MaxSvgLangs == 7

\* styleName in PRESET_STYLES, for the own keys of the table
isValidStyle(styleName) == styleName \in DOMAIN PRESET_STYLES

\* an array is truthy whatever its length, so a || b is a for an array a
OrElse(array, other) == array

\* getStyleConfig(styleName): the key it resolves to and the colors
getStyleConfig(styleName) ==
    LET style == IF styleName # "" /\ styleName \in DOMAIN PRESET_STYLES
                 THEN styleName ELSE "default"
    IN  [style |-> style, colors |-> OrElse(PRESET_STYLES[style], defaultColors)]

\* styleConfig.colors[row % styleConfig.colors.length]: with no colors the
\* index is NaN and the element read is undefined
RowColor(colors, row) ==
    IF Len(colors) = 0 THEN "undefined" ELSE colors[(row % Len(colors)) + 1]

\* colors.lang
LangColor(nightMode) == IF nightMode THEN "#f0f6fc" ELSE "#24292f"

\* the part of the SVG that colours the language entries: the rules
\* .lang-row-<row> of the style sheet (rows[row + 1] is the fill of row),
\* the class of every entry (classes[index + 1]) and the fill that class has
RenderSvg(styleName, nightMode, count) ==
    LET styleConfig     == getStyleConfig(styleName)
        useCustomColors == styleName # "" /\ isValidStyle(styleName)
        totalRows       == (count + 2) \div 3
        rows            == IF useCustomColors
                           THEN [r \in 1..totalRows |-> RowColor(styleConfig.colors, r - 1)]
                           ELSE <<>>
    IN  [pc              |-> "returned",
         useCustomColors |-> useCustomColors,
         style           |-> styleConfig.style,
         colors          |-> styleConfig.colors,
         rows            |-> rows,
         classes         |-> [i \in 1..count |->
                                 IF useCustomColors
                                 THEN [class |-> "lang-row", row |-> (i - 1) \div 3]
                                 ELSE [class |-> "lang", row |-> -1]],
         fills           |-> [i \in 1..count |->
                                 IF useCustomColors
                                 THEN rows[((i - 1) \div 3) + 1]
                                 ELSE LangColor(nightMode)]]

SvgInit ==
    /\ NormIdle
    /\ FetchIdle
    /\ RunIdle
    /\ ReadmeIdle
    /\ \E styleName \in StyleNames, nightMode \in BOOLEAN, count \in 0..MaxSvgLangs :
          svgArgs = [styleName |-> styleName, nightMode |-> nightMode, count |-> count]
    /\ svg = NoSvg

\* the worker renders languageData of svgArgs.count entries
SvgRender ==
    /\ svg.pc = "ready"
    /\ svg' = RenderSvg(svgArgs.styleName, svgArgs.nightMode, svgArgs.count)
    /\ UNCHANGED <<svgArgs, normVars, fetchVars, runVars, readmeVars>>

SvgNext == SvgRender

SpecSvg == SvgInit /\ [][SvgNext]_vars

----------------------------------------------------------------------------
(* The delivery surfaces.  Each run is cut at its awaits: the handling of  *)
(* the inputs up to the user lookup, the handling of the user response up  *)
(* to the GraphQL query, and the rest of the run once the GraphQL response *)
(* is in.  The README is kept as what updateReadme finds in it; the        *)
(* rendering of the statistics is not modelled.                            *)

IsAlnum(c) == c \in {"a", "b", "o", "r"}

\* the username test without its anchors on the first and the last character
ValidUsernameAnyEdge(u) ==
    /\ Len(u) >= 1
    /\ \A i \in 1..Len(u) : IsAlnum(u[i]) \/ u[i] = "-"

\* /^[a-zA-Z0-9]([a-zA-Z0-9-])*[a-zA-Z0-9]$|^[a-zA-Z0-9]$/.test(username)
ValidUsername(u) ==
    /\ Len(u) >= 1
    /\ IsAlnum(u[1])
    /\ IsAlnum(u[Len(u)])
    /\ \A i \in 1..Len(u) : IsAlnum(u[i]) \/ u[i] = "-"

\* repository.split('/')[0]
RECURSIVE Owner(_)
Owner(repository) ==
    IF repository = <<>> \/ repository[1] = "/" THEN <<>>
    ELSE <<repository[1]>> \o Owner(Tail(repository))

\* the GraphQL query of fetchTopLanguages: a constant text, the same for
\* every caller and every setting
Query == "repositories(ownerAffiliations: OWNER, isFork: false, first: 100)"

\* GET https://api.github.com/users/${username}, with the Authorization
\* header token ("" for no header)
UserRequest(username, token) ==
    [api |-> "users", login |-> username, token |-> token, query |-> ""]

\* POST https://api.github.com/graphql of fetchTopLanguages(username, token)
GraphQLRequest(username, token) ==
    [api |-> "graphql", login |-> username, token |-> token, query |-> Query]

\* what updateReadme finds in the README file
ReadmeStates == {"unreadable", "no-start", "start-only", "both"}

\* a variant of the step that calls the normalizer whether or not
\* languageStats is empty
FetchAndNormalizeUnguarded(response) ==
    /\ fetchArgs' = [response |-> response, excludeRepos |-> {},
                     sizeWeight |-> 1, countWeight |-> 0]
    /\ fetched' = FetchTopLanguages(response, {}, 1, 0)
    /\ fetchPc' = "returned"
    /\ IF fetched'.ok
       THEN /\ languageStats' = fetched'.languages
            /\ totalSize' = SumSizes(languageStats')
            /\ work' = Locals(languageStats', totalSize')
            /\ languageData' = Returned(work')
            /\ normPc' = "returned"
       ELSE UNCHANGED normVars

\* the step every surface shares: fetchTopLanguages returns for the
\* response and, unless languageStats is empty, totalSize is summed and
\* calculateLanguagePercentages is called
FetchAndNormalize(response) ==
    /\ fetchArgs' = [response |-> response, excludeRepos |-> {},
                     sizeWeight |-> 1, countWeight |-> 0]
    /\ fetched' = FetchTopLanguages(response, {}, 1, 0)
    /\ fetchPc' = "returned"
    /\ IF fetched'.ok /\ Len(fetched'.languages) # 0
       THEN /\ languageStats' = fetched'.languages
            /\ totalSize' = SumSizes(languageStats')
            /\ work' = Locals(languageStats', totalSize')
            /\ languageData' = Returned(work')
            /\ normPc' = "returned"
       ELSE UNCHANGED normVars

Failed(reason) ==
    [kind |-> "failed", status |-> 0, reason |-> reason,
     readmeWritten |-> FALSE, outputsSet |-> FALSE]

(* ---- the action: run() of main.ts ---- *)

\* a variant that takes the username input as it is
ActionUsernameNoFallback(usernameInput, repository) == usernameInput

\* the username of the run: the input, or the owner of GITHUB_REPOSITORY
ActionUsername(usernameInput, repository) ==
    IF usernameInput # <<>> THEN usernameInput ELSE Owner(repository)

ActionStart ==
    /\ surface = "none"
    /\ \E token \in {"", "t"}, username \in Usernames, repository \in Repositories,
          readme \in ReadmeStates :
        LET name == ActionUsername(username, repository)
        IN  /\ surface' = "action"
            /\ input' = [token |-> token, usernameInput |-> username,
                         repository |-> repository, username |-> name,
                         readme |-> readme, userStatus |-> 0]
            /\ IF token = ""
               THEN /\ outcome' = Failed("Action failed")
                    /\ pc' = "done"
                    /\ UNCHANGED requests
               ELSE IF username = <<>> /\ repository = <<>>
               THEN /\ outcome' = Failed("Username not provided")
                    /\ pc' = "done"
                    /\ UNCHANGED requests
               ELSE IF ~ValidUsername(name)
               THEN /\ outcome' = Failed("Invalid GitHub username format")
                    /\ pc' = "done"
                    /\ UNCHANGED requests
               ELSE /\ requests' = Append(requests, UserRequest(name, token))
                    /\ pc' = "awaitUser"
                    /\ UNCHANGED outcome
    /\ UNCHANGED <<normVars, fetchVars, readmeVars, svgVars>>

ActionUserResponse ==
    /\ surface = "action"
    /\ pc = "awaitUser"
    /\ \E status \in UserStatuses :
        /\ input' = [input EXCEPT !.userStatus = status]
        /\ IF status = 200
           THEN /\ requests' = Append(requests, GraphQLRequest(input.username, input.token))
                /\ pc' = "awaitGraphQL"
                /\ UNCHANGED outcome
           ELSE /\ outcome' = Failed(IF status = 404 THEN "user not found"
                                     ELSE IF status = 403 THEN "rate limit exceeded"
                                     ELSE IF status = 401 THEN "authentication failed"
                                     ELSE "Action failed")
                /\ pc' = "done"
                /\ UNCHANGED requests
    /\ UNCHANGED <<surface, normVars, fetchVars, readmeVars, svgVars>>

\* updateReadme of main.ts on a README in the given state: whether it
\* called core.setFailed and whether it wrote the file
ActionUpdateReadme(readme) ==
    [failed  |-> readme \in {"unreadable", "no-start"},
     written |-> readme \in {"start-only", "both"}]

ActionGraphQLResponse ==
    /\ surface = "action"
    /\ pc = "awaitGraphQL"
    /\ \E response \in Responses(RepoLists(MaxRunRepos, RunEdgeLists)) :
        /\ FetchAndNormalize(response)
        /\ outcome' =
              IF ~fetched'.ok THEN Failed("Action failed")
              ELSE IF Len(fetched'.languages) = 0 THEN Failed("no language information")
              ELSE LET u == ActionUpdateReadme(input.readme)
                   IN  [kind |-> IF u.failed THEN "failed" ELSE "ok",
                        status |-> 0,
                        reason |-> IF u.failed THEN "Failed to update README" ELSE "",
                        readmeWritten |-> u.written,
                        outputsSet |-> TRUE]
    /\ pc' = "done"
    /\ UNCHANGED <<surface, input, requests, readmeVars, svgVars>>

(* ---- the worker: fetch() of the default export ---- *)

WorkerResponse(status, body) ==
    [kind |-> "response", status |-> status, reason |-> body,
     readmeWritten |-> FALSE, outputsSet |-> FALSE]

\* the request and the environment of one call of the worker, with the
\* constants the handler derives from them before it looks at the username
WorkerInput(path, username, styleName, nightMode, userToken, envToken, private) ==
    [path |-> path,
     username |-> IF path = "user" THEN username ELSE <<>>,
     styleName |-> styleName,
     nightMode |-> nightMode,
     userToken |-> userToken,
     envToken |-> envToken,
     enablePrivateAccess |-> private,
     githubToken |-> IF userToken # "" THEN userToken ELSE envToken,
     canAccessPrivate |-> (userToken # "" /\ private = "true"),
     userStatus |-> 0]

\* the GraphQL request of the worker: fetchTopLanguages(username, githubToken, [], 1, 0)
WorkerGraphQLRequest(workerInput) ==
    GraphQLRequest(workerInput.username, workerInput.githubToken)

\* the style names of the requests to the worker in a run
WorkerStyles == {"", "default", "duo", "rainbow"}

WorkerRequest ==
    /\ surface = "none"
    /\ \E path \in {"favicon", "root", "user"}, username \in WorkerUsernames,
          styleName \in WorkerStyles, nightMode \in BOOLEAN,
          userToken \in {"", "u"}, envToken \in {"", "e"},
          private \in {"true", "false", ""} :
        LET githubToken == IF userToken # "" THEN userToken ELSE envToken
        IN  /\ path # "user" => (username = <<"a">> /\ styleName = "" /\ ~nightMode)
            /\ surface' = "worker"
            /\ input' = WorkerInput(path, username, styleName, nightMode,
                                    userToken, envToken, private)
            /\ IF path = "favicon"
               THEN /\ outcome' = WorkerResponse(204, "")
                    /\ pc' = "done"
                    /\ UNCHANGED requests
               ELSE IF path = "root"
               THEN /\ outcome' = WorkerResponse(200, "help")
                    /\ pc' = "done"
                    /\ UNCHANGED requests
               ELSE IF ~ValidUsername(username)
               THEN /\ outcome' = WorkerResponse(400, "Invalid GitHub username format")
                    /\ pc' = "done"
                    /\ UNCHANGED requests
               ELSE /\ requests' = Append(requests, UserRequest(username, githubToken))
                    /\ pc' = "awaitUser"
                    /\ UNCHANGED outcome
    /\ UNCHANGED <<normVars, fetchVars, readmeVars, svgVars>>

\* errorMessage.includes(phrase), on words
Includes(message, phrase) ==
    \E i \in 1..(Len(message) - Len(phrase) + 1) :
        SubSeq(message, i, i + Len(phrase) - 1) = phrase

\* a catch block that tells the errors apart by the status of the upstream
\* response alone, which the message of a thrown error does not carry
WorkerCatchByStatus(message) ==
    IF message = <<"GitHub", "API", "rate", "limit", "exceeded", ".", "Please", "try", "again", "later">>
    THEN WorkerResponse(429, "rate limit exceeded")
    ELSE IF message = <<"GitHub", "API", "authentication", "failed", ".", "Please", "check", "your", "GitHub", "token">>
    THEN WorkerResponse(401, "authentication failed")
    ELSE WorkerResponse(500, "Internal server error")

\* the catch block of the worker for a thrown error with that message
WorkerCatch(message) ==
    IF Includes(message, <<"rate", "limit", "exceeded">>)
    THEN WorkerResponse(429, "rate limit exceeded")
    ELSE IF Includes(message, <<"authentication", "failed">>)
    THEN WorkerResponse(401, "authentication failed")
    ELSE IF Includes(message, <<"not", "found">>)
    THEN WorkerResponse(404, "not found")
    ELSE WorkerResponse(500, "Internal server error")

WorkerUserResponse ==
    /\ surface = "worker"
    /\ pc = "awaitUser"
    /\ \E status \in UserStatuses :
        /\ input' = [input EXCEPT !.userStatus = status]
        /\ IF status = 200
           THEN /\ requests' = Append(requests, WorkerGraphQLRequest(input))
                /\ pc' = "awaitGraphQL"
                /\ UNCHANGED outcome
           ELSE /\ outcome' = IF status = 404 THEN WorkerResponse(404, "user not found")
                              ELSE IF status = 403 THEN WorkerResponse(429, "rate limit exceeded")
                              ELSE IF status = 401 THEN WorkerResponse(401, "authentication failed")
                              ELSE WorkerCatch(<<"GitHub", "API", "error", ":">>)
                /\ pc' = "done"
                /\ UNCHANGED requests
    /\ UNCHANGED <<surface, normVars, fetchVars, readmeVars, svgVars>>

WorkerGraphQLResponse ==
    /\ surface = "worker"
    /\ pc = "awaitGraphQL"
    /\ \E response \in Responses(RepoLists(MaxRunRepos, RunEdgeLists)) :
        /\ FetchAndNormalize(response)
        /\ outcome' =
              IF ~fetched'.ok THEN WorkerCatch(fetched'.error)
              ELSE IF Len(fetched'.languages) = 0
                   THEN WorkerResponse(200, "no language information")
              ELSE WorkerResponse(200, "svg")
        /\ IF fetched'.ok /\ Len(fetched'.languages) # 0
           THEN /\ svgArgs' = [styleName |-> input.styleName,
                               nightMode |-> input.nightMode,
                               count |-> Len(languageData')]
                /\ svg' = RenderSvg(input.styleName, input.nightMode, Len(languageData'))
           ELSE UNCHANGED svgVars
    /\ pc' = "done"
    /\ UNCHANGED <<surface, input, requests, readmeVars>>

(* ---- the local script: run() of the local runner ---- *)

LocalStart ==
    /\ surface = "none"
    /\ \E token \in {"", "t"}, username \in Usernames, readme \in ReadmeStates,
          githubOutput \in BOOLEAN :
        /\ surface' = "local"
        /\ input' = [token |-> token, username |-> username, readme |-> readme,
                     githubOutput |-> githubOutput, userStatus |-> 0]
        /\ IF token = "" \/ username = <<>> \/ ~ValidUsername(username)
           THEN /\ outcome' = Failed(IF token = "" \/ username = <<>>
                                     THEN "Input required and not supplied"
                                     ELSE "Invalid GitHub username format")
                /\ pc' = "done"
                /\ UNCHANGED requests
           ELSE /\ requests' = Append(requests, UserRequest(username, token))
                /\ pc' = "awaitUser"
                /\ UNCHANGED outcome
    /\ UNCHANGED <<normVars, fetchVars, readmeVars, svgVars>>

LocalUserResponse ==
    /\ surface = "local"
    /\ pc = "awaitUser"
    /\ \E status \in UserStatuses :
        /\ input' = [input EXCEPT !.userStatus = status]
        /\ IF status = 200
           THEN /\ requests' = Append(requests, GraphQLRequest(input.username, input.token))
                /\ pc' = "awaitGraphQL"
                /\ UNCHANGED outcome
           ELSE /\ outcome' = Failed(IF status = 404 THEN "user not found"
                                     ELSE IF status = 403 THEN "rate limit exceeded"
                                     ELSE IF status = 401 THEN "authentication failed"
                                     ELSE "GitHub API error")
                /\ pc' = "done"
                /\ UNCHANGED requests
    /\ UNCHANGED <<surface, normVars, fetchVars, readmeVars, svgVars>>

\* updateReadme of the local runner: a missing start marker is thrown and
\* caught inside it, and reported with core.setFailed
LocalUpdateReadme(readme) ==
    [failed  |-> readme \in {"unreadable", "no-start"},
     written |-> readme \in {"start-only", "both"}]

LocalGraphQLResponse ==
    /\ surface = "local"
    /\ pc = "awaitGraphQL"
    /\ \E response \in Responses(RepoLists(MaxRunRepos, RunEdgeLists)) :
        /\ FetchAndNormalize(response)
        /\ outcome' =
              IF ~fetched'.ok THEN Failed("Action failed")
              ELSE IF Len(fetched'.languages) = 0 THEN Failed("no language information")
              ELSE LET u == LocalUpdateReadme(input.readme)
                   IN  [kind |-> IF u.failed THEN "failed" ELSE "ok",
                        status |-> 0,
                        reason |-> IF u.failed THEN "Failed to update README" ELSE "",
                        readmeWritten |-> u.written,
                        outputsSet |-> input.githubOutput]
    /\ pc' = "done"
    /\ UNCHANGED <<surface, input, requests, readmeVars, svgVars>>

Init ==
    /\ NormIdle
    /\ FetchIdle
    /\ RunIdle
    /\ ReadmeIdle
    /\ SvgIdle

Next ==
    \/ ActionStart
    \/ ActionUserResponse
    \/ ActionGraphQLResponse
    \/ WorkerRequest
    \/ WorkerUserResponse
    \/ WorkerGraphQLResponse
    \/ LocalStart
    \/ LocalUserResponse
    \/ LocalGraphQLResponse

Spec == Init /\ [][Next]_vars

----------------------------------------------------------------------------
(* Properties of calculateLanguagePercentages, checked under SpecNorm *)

Returned_ == normPc = "returned"

AllPositive(stats) == \A i \in 1..Len(stats) : stats[i].size > 0

\* a positive share below 0.005% of the total (size * 20000 < total)
TinyShare(size, total) == size > 0 /\ size <= (total - 1) \div 20000

\* where a language sits in the input mapping / in the returned sequence
InputPos(lang) == CHOOSE i \in 1..Len(languageStats) : languageStats[i].name = lang

InOutput(lang) == \E j \in 1..Len(languageData) : languageData[j].language = lang

OutputOf(lang) == CHOOSE j \in 1..Len(languageData) : languageData[j].language = lang

FinalOf(lang) == CHOOSE k \in 1..Len(work.final) : work.final[k].language = lang

\* the entries the adjustment left below zero
NegativeFinals == {k \in 1..Len(work.final) : work.final[k].rounded < 0}

\* C1 as stated: for every non-empty mapping of positive sizes (totalSize
\* their sum) the returned percentages sum to exactly 100.00.
C1_SumIsExactly100 ==
    (Returned_ /\ languageStats # <<>> /\ AllPositive(languageStats))
        => SumPercentage(languageData) = Hundred

\* C1 amended: with a positive total, the returned percentages sum to 100.00
\* minus the initial difference (99.99, 100.00 or 100.01) when the initial
\* rounded values are off by 0.01 or less, the pass being skipped; when they
\* are off by 0.02 or more the pass brings the rounded values to exactly
\* 100.00, and the returned sum exceeds 100.00 by 0.01 for each entry the
\* pass left below zero and the filter then dropped.
C1_SumCloseTo100 ==
    (Returned_ /\ totalSize > 0)
        => /\ Abs(work.difference) <= DiffThreshold
                => SumPercentage(languageData) = Hundred - work.difference
           /\ Abs(work.difference) > DiffThreshold
                => /\ SumRounded(work.final) = Hundred
                   /\ SumPercentage(languageData) = Hundred + Cardinality(NegativeFinals)

\* C1 witness: three equal positive sizes come back as 33.33 each, 99.99 in all
C1_Witness ==
    /\ Returned_
    /\ Len(languageStats) = 3
    /\ AllPositive(languageStats)
    /\ work.difference = 1
    /\ SumPercentage(languageData) = Hundred - 1

\* C2 as stated: every language of size > 0 is in the output with a
\* percentage > 0.
C2_NoLanguageVanishes ==
    Returned_ =>
        \A i \in 1..Len(languageStats) :
            languageStats[i].size > 0 =>
                /\ InOutput(languageStats[i].name)
                /\ languageData[OutputOf(languageStats[i].name)].percentage > 0

\* C2 amended: every returned percentage is > 0, and a language of size > 0
\* is returned exactly when its rounded value after the adjustment is > 0,
\* with that value; a language whose initial rounded value is 0.02 or more
\* is always returned, one that rounds to 0.00 and is not adjusted is not.
C2_VanishesOnlyAtZero ==
    (Returned_ /\ totalSize > 0) =>
        /\ \A j \in 1..Len(languageData) : languageData[j].percentage > 0
        /\ \A i \in 1..Len(languageStats) :
              LET lang == languageStats[i].name
                  k    == FinalOf(lang)
              IN  languageStats[i].size > 0 =>
                    /\ InOutput(lang) <=> work.final[k].rounded > 0
                    /\ InOutput(lang) =>
                          languageData[OutputOf(lang)].percentage = work.final[k].rounded
                    /\ work.initial[k].rounded >= 2 => InOutput(lang)
                    /\ (work.initial[k].rounded = 0 /\ ~work.entered) => ~InOutput(lang)

\* C2 witness: a language of positive size was rounded to 0.00 and dropped
C2_Witness ==
    /\ Returned_
    /\ \E i \in 1..Len(languageStats) :
          /\ languageStats[i].size > 0
          /\ ~InOutput(languageStats[i].name)
    /\ languageData # <<>>

\* C3: the returned sequence is in descending size, equal sizes in the order
\* of the input mapping, also when the adjustment pass has run.
C3_OutputOrder ==
    Returned_ =>
        \A i, j \in 1..Len(languageData) :
            i < j =>
                /\ languageData[i].size >= languageData[j].size
                /\ languageData[i].size = languageData[j].size
                      => InputPos(languageData[i].language) < InputPos(languageData[j].language)

\* C3 witness: the pass ran on a mapping with equal sizes that was not
\* already in descending order
C3_Witness ==
    /\ Returned_
    /\ work.entered
    /\ \E i, j \in 1..Len(languageData) :
          i < j /\ languageData[i].size = languageData[j].size
    /\ \E i, j \in 1..Len(languageStats) :
          i < j /\ languageStats[i].size < languageStats[j].size
    /\ \E k \in 1..Len(work.order) : work.order[k] # k

\* C4 as stated: with an empty mapping or a zero total the normalizer never
\* returns a result.
C4_NeverReturnsOnEmpty ==
    ~(Returned_ /\ (languageStats = <<>> \/ totalSize = 0))

\* C4 amended: with an empty mapping or a zero total the call signals
\* nothing: it returns, what it returns is the empty list, and no rounded
\* value is adjusted.
C4_ReturnsEmptyList ==
    (Returned_ /\ (languageStats = <<>> \/ totalSize = 0))
        => (languageData = <<>> /\ work.final = work.initial)

\* C4 witness: a mapping of zero-size entries came back as the empty list
C4_Witness ==
    /\ Returned_
    /\ languageStats # <<>>
    /\ totalSize = 0
    /\ languageData = <<>>

\* C7 as stated: {A: 999999, B: 1} gives B 0.01 and A 99.99, and a language
\* with a positive share below 0.005% is in the output with 0.01.
C7_TinyShareShown ==
    Returned_ =>
        /\ languageStats = AsStats(<<999999, 1>>) =>
              languageData = <<[language |-> "A", size |-> 999999, percentage |-> 9999],
                               [language |-> "B", size |-> 1, percentage |-> 1]>>
        /\ \A i \in 1..Len(languageStats) :
              TinyShare(languageStats[i].size, totalSize) =>
                  /\ InOutput(languageStats[i].name)
                  /\ languageData[OutputOf(languageStats[i].name)].percentage = 1

\* C7 amended: {A: 999999, B: 1} gives the single entry A 100.00 (sum
\* 100.00), B being rounded to 0.00 and dropped; a language with a positive
\* share below 0.005% starts at 0.00 and is in the output only if the
\* adjustment pass added 0.01 to it, and then with 0.01.
C7_TinyShareDropped ==
    Returned_ =>
        /\ languageStats = AsStats(<<999999, 1>>) =>
              languageData = <<[language |-> "A", size |-> 999999, percentage |-> Hundred]>>
        /\ \A i \in 1..Len(languageStats) :
              LET lang == languageStats[i].name
              IN  TinyShare(languageStats[i].size, totalSize) =>
                    /\ work.initial[FinalOf(lang)].rounded = 0
                    /\ InOutput(lang) =>
                          /\ work.entered /\ work.difference > 0
                          /\ languageData[OutputOf(lang)].percentage = 1

\* C7 witness: the call on {A: 999999, B: 1} has returned
C7_Witness ==
    /\ Returned_
    /\ languageStats = AsStats(<<999999, 1>>)
    /\ Len(languageData) = 1

\* C8: two languages of equal positive size get percentages that sum to
\* 100.00, each within 0.01 of 50.00.
C8_TwoEqual ==
    (/\ Returned_
     /\ Len(languageStats) = 2
     /\ languageStats[1].size = languageStats[2].size
     /\ languageStats[1].size > 0)
        => /\ Len(languageData) = 2
           /\ SumPercentage(languageData) = Hundred
           /\ \A j \in 1..2 : Abs(languageData[j].percentage - 5000) <= 1

\* C8 witness: a call on two equal positive sizes has returned
C8_Witness ==
    /\ Returned_
    /\ Len(languageStats) = 2
    /\ languageStats[1].size = languageStats[2].size
    /\ languageStats[1].size > 1
    /\ Len(languageData) = 2

\* C9: a single language of positive size comes back as one entry with
\* 100.00, and the adjustment pass is not entered.
C9_SingleLanguage ==
    (Returned_ /\ Len(languageStats) = 1 /\ languageStats[1].size > 0)
        => /\ languageData = <<[language |-> languageStats[1].name,
                                size |-> languageStats[1].size,
                                percentage |-> Hundred]>>
           /\ ~work.entered
           /\ work.visited = 0

\* C9 witness: a call on a single language has returned
C9_Witness ==
    /\ Returned_
    /\ Len(languageStats) = 1
    /\ languageStats[1].size > 0
    /\ Len(languageData) = 1

\* the true share size / totalSize * 100 of the k-th entry of roundedData in
\* hundredths, computed from the size: q whole hundredths and r / totalSize
\* of one more
TrueShare(k) ==
    LET a == (work.initial[k].size * 100) \div totalSize
        b == (work.initial[k].size * 100) % totalSize
    IN  [q |-> a * 100 + (b * 100) \div totalSize, r |-> (b * 100) % totalSize]

\* true share minus initial rounded value, as a numerator over totalSize
TrueRemainder(k) ==
    (TrueShare(k).q - work.initial[k].rounded) * totalSize + TrueShare(k).r

\* the entries of roundedData the pass changed
Adjusted == {k \in 1..Len(work.final) : work.final[k].rounded # work.initial[k].rounded}

Min(a, b) == IF a < b THEN a ELSE b

\* C16 as stated: the initial rounded value of each entry is the ceiling of
\* its true percentage to 2 decimals, so none is below its true share.
C16_InitialIsCeiling ==
    (Returned_ /\ totalSize > 0) =>
        \A k \in 1..Len(work.initial) :
            /\ work.initial[k].rounded =
                  IF TrueShare(k).r > 0 THEN TrueShare(k).q + 1 ELSE TrueShare(k).q
            /\ TrueRemainder(k) <= 0

\* C16 amended: the initial rounded value of each entry is its true
\* percentage rounded to the nearest hundredth, up when the rest is more
\* than half a hundredth and down when it is less, so it is within 0.005 of
\* the true share and is below it whenever it was rounded down.
C16_InitialIsNearest ==
    (Returned_ /\ totalSize > 0) =>
        \A k \in 1..Len(work.initial) :
            /\ work.initial[k].rounded \in {TrueShare(k).q, TrueShare(k).q + 1}
            /\ 2 * TrueShare(k).r > totalSize => work.initial[k].rounded = TrueShare(k).q + 1
            /\ 2 * TrueShare(k).r < totalSize => work.initial[k].rounded = TrueShare(k).q
            /\ 2 * Abs(TrueRemainder(k)) <= totalSize
            /\ work.initial[k].remainder = TrueRemainder(k)

\* C16 witness: an entry starts below its true share, 33.33 for a third
C16_Witness ==
    /\ Returned_
    /\ totalSize > 0
    /\ \E k \in 1..Len(work.initial) :
          /\ TrueRemainder(k) > 0
          /\ work.initial[k].rounded = 3333

\* C17 as stated: the pass is skipped only for a negligible difference; a
\* discrepancy of 0.01 or more, exactly 0.01 included, triggers it.
C17_EnteredFromOneHundredth ==
    (Returned_ /\ totalSize > 0) =>
        (work.entered <=> Abs(work.difference) >= 1)

\* C17 amended: the pass is entered exactly when the difference is more than
\* 0.01 in absolute value, that is 0.02 or more; with a difference of exactly
\* 0.01 or -0.01 it is skipped, the rounded values stay as they are and the
\* returned percentages sum to 99.99 or 100.01.
C17_EnteredAboveOneHundredth ==
    (Returned_ /\ totalSize > 0) =>
        /\ work.entered <=> Abs(work.difference) >= 2
        /\ ~work.entered => (work.final = work.initial /\ work.visited = 0)
        /\ Abs(work.difference) = 1 =>
              /\ Adjusted = {}
              /\ SumRounded(work.final) = Hundred - work.difference

\* C17 witness: a sum of 100.01 was left as it is
C17_Witness ==
    /\ Returned_
    /\ totalSize > 0
    /\ work.difference = -1
    /\ ~work.entered
    /\ SumRounded(work.final) = Hundred + 1

C19_NeverBelowOneHundredth ==
    (Returned_ /\ totalSize > 0) =>
        \A k \in 1..Len(work.final) :
            /\ work.final[k].rounded < work.initial[k].rounded => work.final[k].rounded >= 1
            /\ (work.difference < 0 /\ work.initial[k].rounded <= 1)
                  => work.final[k].rounded = work.initial[k].rounded

\* C20: the pass is a single pass: each entry is visited at most once, so
\* its final value is within 0.01 of its initial rounded value, and the
\* loop stops as soon as the remaining difference is zero, or at the end of
\* the list.
C20_SinglePass ==
    Returned_ =>
        /\ \A k \in 1..Len(work.final) :
              Abs(work.final[k].rounded - work.initial[k].rounded) <= 1
        /\ work.visited <= Len(work.initial)
        /\ ~work.entered => (work.visited = 0 /\ Adjusted = {})
        /\ work.entered =>
              /\ work.visited = Min(Abs(work.difference), Len(work.initial))
              /\ Cardinality(Adjusted) = work.visited
              /\ work.remaining = work.difference - Sign(work.difference) * work.visited
              /\ work.remaining = 0 \/ work.visited = Len(work.initial)

\* C20 witness: a pass stopped at a remaining difference of zero before the
\* end of the list
C20_Witness ==
    /\ Returned_
    /\ work.entered
    /\ work.visited > 0
    /\ work.visited < Len(work.initial)
    /\ work.remaining = 0
    /\ Cardinality(Adjusted) = work.visited

\* the entries of roundedData that pass the filter of the return
Kept == {k \in 1..Len(work.final) : ~work.final[k].nan /\ work.final[k].rounded > 0}

\* C21: every returned percentage is a whole number of hundredths, more than
\* 0 and at most 100.00, and the entries returned are exactly those whose
\* final rounded value is more than 0, each with that value.
C21_ReturnedRange ==
    Returned_ =>
        /\ \A j \in 1..Len(languageData) : languageData[j].percentage \in 1..Hundred
        /\ Len(languageData) = Cardinality(Kept)
        /\ \A k \in 1..Len(work.final) :
              IF k \in Kept
              THEN /\ InOutput(work.final[k].language)
                   /\ languageData[OutputOf(work.final[k].language)].percentage
                          = work.final[k].rounded
              ELSE ~InOutput(work.final[k].language)

\* C21 witness: an entry left at -0.01 was excluded, the others returned
C21_Witness ==
    /\ Returned_
    /\ NegativeFinals # {}
    /\ Len(languageData) = Len(work.final) - Cardinality(NegativeFinals)
    /\ languageData # <<>>

\* C23: a call of calculateLanguagePercentages leaves the mapping it was
\* given as it was (the keys, their order, and the name, size and count of
\* every entry) and changes nothing but its own locals and its result.
C23_InputUnchanged ==
    [][(normPc = "ready" /\ normPc' = "returned")
          => /\ languageStats' = languageStats
             /\ totalSize' = totalSize
             /\ UNCHANGED <<fetchVars, runVars, readmeVars, svgVars>>]_vars

\* C23 witness: a call that sorted its entries and adjusted two of them has
\* returned, and the mapping is still in its unsorted order
C23_Witness ==
    /\ Returned_
    /\ work.entered
    /\ Cardinality(Adjusted) >= 2
    /\ \E i \in 1..Len(languageStats) :
          /\ languageStats[i].name # work.final[i].language
          /\ languageStats[i].name = LangNames[i]
    /\ \E i, j \in 1..Len(languageStats) :
          i < j /\ languageStats[i].size < languageStats[j].size

\* C25 as stated: whenever the adjustment pass runs it ends with a remaining
\* difference of exactly zero, never at the end of the list first, so the
\* rounded values before the filter sum to exactly 100.00.
C25_PassEndsAtZero ==
    (Returned_ /\ work.entered) =>
        /\ work.remaining = 0
        /\ SumRounded(work.final) = Hundred

\* C25 amended: for a mapping with a positive total, whenever the pass runs
\* it ends with a remaining difference of exactly zero, the difference being
\* at most half the number of entries, and the rounded values before the
\* filter sum to exactly 100.00; for the empty mapping the pass is entered
\* with a difference of 100.00 and no entry to adjust, and ends with that
\* difference remaining and a sum of 0.
C25_PassEndsAtZeroIfNonEmpty ==
    (Returned_ /\ work.entered) =>
        /\ totalSize > 0 =>
              /\ 2 * Abs(work.difference) <= Len(work.initial)
              /\ work.visited = Abs(work.difference)
              /\ work.remaining = 0
              /\ SumRounded(work.final) = Hundred
        /\ totalSize = 0 =>
              /\ languageStats = <<>>
              /\ work.visited = 0
              /\ work.remaining = Hundred
              /\ SumRounded(work.final) = 0

\* C25 witness: a pass that added 0.01 to two entries ended at zero
C25_Witness ==
    /\ Returned_
    /\ totalSize > 0
    /\ work.entered
    /\ work.difference = 2
    /\ work.remaining = 0
    /\ SumRounded(work.initial) = Hundred - 2
    /\ SumRounded(work.final) = Hundred

----------------------------------------------------------------------------
(* Properties of the delivery surfaces, checked under Spec *)

\* C5: no surface calls calculateLanguagePercentages on an empty mapping:
\* at every call the mapping is non-empty, every entry has size > 0 and
\* totalSize > 0; with an empty aggregate the run ends in the outcome
\* "no language information", which no other path produces, without a call.
C5_NeverCalledOnEmpty ==
    /\ normPc = "returned" =>
          /\ languageStats # <<>>
          /\ AllPositive(languageStats)
          /\ totalSize > 0
          /\ languageStats = fetched.languages
    /\ (pc = "done" /\ fetchPc = "returned" /\ fetched.ok /\ fetched.languages = <<>>) =>
          /\ normPc = "ready"
          /\ outcome.reason = "no language information"
          /\ outcome.kind = IF surface = "worker" THEN "response" ELSE "failed"
    /\ (pc = "done" /\ outcome.reason = "no language information") =>
          (fetchPc = "returned" /\ fetched.ok /\ fetched.languages = <<>>)

\* C5 witness: a run whose repositories hold only zero-size edges ended with
\* "no language information" and no call of the normalizer
C5_Witness ==
    /\ pc = "done"
    /\ fetched.ok
    /\ Len(fetchArgs.response.nodes) > 0
    /\ \E i \in 1..Len(fetchArgs.response.nodes) :
          Len(fetchArgs.response.nodes[i].edges) > 0
    /\ fetched.languages = <<>>
    /\ normPc = "ready"
    /\ outcome.reason = "no language information"

\* the GraphQL request the worker sends for the request of this run with
\* env.ENABLE_PRIVATE_ACCESS set to another value
RequestUnderSetting(private) ==
    WorkerGraphQLRequest(
        WorkerInput(input.path, input.username, input.styleName, input.nightMode,
                    input.userToken, input.envToken, private))

\* C12: in the worker, with a user token supplied, two requests that differ
\* only in env.ENABLE_PRIVATE_ACCESS, 'true' in one and not in the other, do
\* not send the same token and query to the GraphQL API.
C12_PrivateAccessChangesFetch ==
    (/\ surface = "worker"
     /\ Len(requests) = 2
     /\ input.userToken # "")
        => \A private \in {"true", "false", ""} :
              (private = "true") # (input.enablePrivateAccess = "true")
                  => \/ RequestUnderSetting(private).token # requests[2].token
                     \/ RequestUnderSetting(private).query # requests[2].query

\* C15: in the action's run, with an empty username input the username is
\* the text of GITHUB_REPOSITORY before its first '/', and the user lookup,
\* if the run gets to it, asks for that name; with the input and
\* GITHUB_REPOSITORY both absent the run is marked failed and has sent no
\* request.
C15_UsernameFallback ==
    (surface = "action" /\ input.usernameInput = <<>>) =>
        /\ (input.repository # <<>> /\ input.token # "") =>
              /\ input.username = Owner(input.repository)
              /\ \A k \in 1..Len(input.username) : input.username[k] # "/"
              /\ input.repository =
                    IF Len(input.username) = Len(input.repository)
                    THEN input.username
                    ELSE input.username \o <<"/">>
                             \o SubSeq(input.repository, Len(input.username) + 2,
                                       Len(input.repository))
              /\ \A i \in 1..Len(requests) : requests[i].login = input.username
              /\ ValidUsername(input.username) => requests # <<>>
              /\ ~ValidUsername(input.username) =>
                    (pc = "done" /\ outcome.kind = "failed" /\ requests = <<>>)
        /\ input.repository = <<>> =>
              /\ pc = "done"
              /\ outcome.kind = "failed"
              /\ requests = <<>>

\* C15 witness: a run without a username input looked up the owner of
\* GITHUB_REPOSITORY
C15_Witness ==
    /\ surface = "action"
    /\ input.usernameInput = <<>>
    /\ input.repository = <<"o", "/", "r">>
    /\ Len(requests) = 2
    /\ requests[1] = UserRequest(<<"o">>, input.token)
    /\ requests[2].login = <<"o">>

----------------------------------------------------------------------------
(* Properties of fetchTopLanguages, checked under SpecFetch *)

\* the edges that count for a language: (repository, edge) positions of
\* the response with that language, size > 0, repository not excluded
CountedEdges(lang) ==
    {<<i, j>> \in (1..Len(fetchArgs.response.nodes)) \X (1..Cardinality(EdgeLangs)) :
        /\ fetchArgs.response.nodes[i].name \notin fetchArgs.excludeRepos
        /\ j <= Len(fetchArgs.response.nodes[i].edges)
        /\ fetchArgs.response.nodes[i].edges[j].name = lang
        /\ fetchArgs.response.nodes[i].edges[j].size > 0}

RECURSIVE SumOfEdges(_)
SumOfEdges(S) ==
    IF S = {} THEN 0
    ELSE LET e == CHOOSE x \in S : TRUE
         IN  fetchArgs.response.nodes[e[1]].edges[e[2]].size + SumOfEdges(S \ {e})

\* the byte sum and the number of contributing repositories of a language
RawSize(lang) == SumOfEdges(CountedEdges(lang))

RepoCount(lang) == Cardinality({e[1] : e \in CountedEdges(lang)})

\* C10: the final size of each language is (its byte sum)^sizeWeight times
\* (its number of contributing repositories)^countWeight, applied once;
\* with exponents (1, 0) it is the byte sum, and with (1, 1), byte sum 10
\* and 2 repositories it is 20.
C10_WeightedSize ==
    (fetchPc = "returned" /\ fetched.ok) =>
        \A lang \in EdgeLangs :
            LET k == KeyIndex(fetched.languages, lang)
            IN  /\ k # 0 <=> CountedEdges(lang) # {}
                /\ Cardinality({i \in 1..Len(fetched.languages) :
                                    fetched.languages[i].name = lang}) <= 1
                /\ k # 0 =>
                      /\ fetched.languages[k].size =
                            Pow(RawSize(lang), fetchArgs.sizeWeight)
                                * Pow(RepoCount(lang), fetchArgs.countWeight)
                      /\ fetched.languages[k].count = RepoCount(lang)
                      /\ (fetchArgs.sizeWeight = 1 /\ fetchArgs.countWeight = 0)
                            => fetched.languages[k].size = RawSize(lang)
                      /\ (/\ fetchArgs.sizeWeight = 1 /\ fetchArgs.countWeight = 1
                          /\ RawSize(lang) = 10 /\ RepoCount(lang) = 2)
                            => fetched.languages[k].size = 20

\* C10 witness: with exponents (1, 1) a language of byte sum 10 over two
\* repositories came back with size 20
C10_Witness ==
    /\ fetchPc = "returned"
    /\ fetched.ok
    /\ fetchArgs.sizeWeight = 1
    /\ fetchArgs.countWeight = 1
    /\ \E k \in 1..Len(fetched.languages) :
          /\ RawSize(fetched.languages[k].name) = 10
          /\ RepoCount(fetched.languages[k].name) = 2
          /\ fetched.languages[k].size = 20

----------------------------------------------------------------------------
(* Properties of updateReadme, checked under SpecReadme *)

ReadmeReturned == readmeCall.pc = "returned"

HasMarker(text, marker) == \E i \in 1..Len(text) : text[i] = marker

\* the text with the statistics put between the start marker at piece i
\* and the end marker at piece j
Spliced(text, i, j, statsHTML) ==
    SubSeq(text, 1, i) \o <<"\n">> \o statsHTML \o <<"\n">> \o SubSeq(text, j, Len(text))

\* C11: for a README that holds both markers, in any positions, the file
\* written is the text up to and including the start marker, a newline, the
\* statistics, a newline, and the text from the end marker onward; the
\* statistics are between a start marker and an end marker behind it, and
\* the text before that start marker and behind that end marker is the
\* original's, nothing of it changed, lost or duplicated.
C11_SplicedBetweenMarkers ==
    (/\ ReadmeReturned
     /\ readmeFile.readable
     /\ HasMarker(readmeCall.readmeContent, startMarker)
     /\ HasMarker(readmeCall.readmeContent, endMarker))
        => /\ readmeCall.written
           /\ readmeFile.text =
                 Spliced(readmeCall.readmeContent,
                         IndexOf(readmeCall.readmeContent, startMarker) + 1,
                         IndexOf(readmeCall.readmeContent, endMarker) + 1,
                         readmeCall.statsHTML)
           /\ \E i, j \in 1..Len(readmeCall.readmeContent) :
                 /\ i < j
                 /\ readmeCall.readmeContent[i] = startMarker
                 /\ readmeCall.readmeContent[j] = endMarker
                 /\ readmeFile.text =
                       Spliced(readmeCall.readmeContent, i, j, readmeCall.statsHTML)

----------------------------------------------------------------------------
(* Properties of the styles and of the worker's SVG, checked under SpecSvg *)

SvgRendered == svg.pc = "returned"

\* C13: for every valid style passed as ?style=, every language entry of
\* row r (indices 3r .. 3r + 2) has the r-th colour of the selected theme,
\* taken cyclically (colors[r mod number of colours]), the same for the
\* whole row, and that is a defined colour for every preset style name,
\* 'default' included.
C13_RowColorFromTheme ==
    (/\ SvgRendered
     /\ svgArgs.styleName # ""
     /\ isValidStyle(svgArgs.styleName))
        => /\ \A i \in 1..svgArgs.count :
                 LET row   == (i - 1) \div 3
                     theme == PRESET_STYLES[svgArgs.styleName]
                 IN  /\ Len(theme) > 0
                     /\ svg.fills[i] = theme[(row % Len(theme)) + 1]
                     /\ svg.fills[i] # "undefined"
           /\ \A i, j \in 1..svgArgs.count :
                 (i - 1) \div 3 = (j - 1) \div 3 => svg.fills[i] = svg.fills[j]

\* C14: every style name the README and the help text list as available is
\* accepted by isValidStyle and resolved by getStyleConfig to its own entry
\* of the table, not to the fallback.
C14_ListedStylesResolve ==
    (SvgRendered /\ svgArgs.styleName \in AvailableStyles)
        => /\ isValidStyle(svgArgs.styleName)
           /\ svg.useCustomColors
           /\ svg.style = svgArgs.styleName
           /\ svg.colors = PRESET_STYLES[svgArgs.styleName]

\* the response without the repositories named in excludeRepos and without
\* the edges of size <= 0
CountedOnly(response, excludeRepos) ==
    [response EXCEPT !.nodes =
        LET visible == SelectSeq(response.nodes, LAMBDA repo : repo.name \notin excludeRepos)
        IN  [i \in 1..Len(visible) |->
                [visible[i] EXCEPT !.edges = SelectSeq(@, LAMBDA edge : edge.size > 0)]]]

\* C24: for every language the pre-weight size is the sum of the sizes of
\* its edges of size > 0 in repositories not named in excludeRepos and the
\* count is the number of those edges; excluded repositories and edges of
\* size <= 0 contribute nothing, and every entry returned has size > 0.
C24_Aggregation ==
    (fetchPc = "returned" /\ fetched.ok) =>
        /\ \A k \in 1..Len(fetched.languages) :
              LET lang == fetched.languages[k].name
              IN  /\ lang \in EdgeLangs
                  /\ CountedEdges(lang) # {}
                  /\ fetched.languages[k].count = Cardinality(CountedEdges(lang))
                  /\ fetched.languages[k].size > 0
                  /\ fetched.languages[k].size =
                        WeightedSize([size  |-> SumOfEdges(CountedEdges(lang)),
                                      count |-> Cardinality(CountedEdges(lang))],
                                     fetchArgs.sizeWeight, fetchArgs.countWeight)
        /\ \A lang \in EdgeLangs :
              CountedEdges(lang) # {} => KeyIndex(fetched.languages, lang) # 0
        /\ fetched.languages =
              FetchTopLanguages(CountedOnly(fetchArgs.response, fetchArgs.excludeRepos), {},
                                fetchArgs.sizeWeight, fetchArgs.countWeight).languages

\* C24 witness: of a language with an edge in an excluded repository, an edge
\* of size 0 and one of size 7, only the last was counted
C24_Witness ==
    /\ fetchPc = "returned"
    /\ fetched.ok
    /\ fetchArgs.excludeRepos = {"r1"}
    /\ fetchArgs.sizeWeight = 1
    /\ fetchArgs.countWeight = 0
    /\ Len(fetchArgs.response.nodes) = 2
    /\ fetchArgs.response.nodes[1].edges = <<[name |-> "TS", size |-> 3]>>
    /\ fetchArgs.response.nodes[2].edges =
          <<[name |-> "JS", size |-> 0], [name |-> "TS", size |-> 7]>>
    /\ fetched.languages = <<[name |-> "TS", size |-> 7, count |-> 1]>>

----------------------------------------------------------------------------
(* Properties of fetchTopLanguages followed by the normalizer, checked     *)
(* under SpecWeighted                                                      *)

\* the weighted size of a language of the response, from its edges
WeightedOf(lang) ==
    Pow(RawSize(lang), fetchArgs.sizeWeight) * Pow(RepoCount(lang), fetchArgs.countWeight)

\* C22 as stated: with non-default weights the normalized output is still in
\* descending order of the raw, pre-weight byte size, and the size of each
\* entry is the raw size.
C22_OrderedByRawSize ==
    (fetchPc = "returned" /\ normPc = "returned") =>
        /\ \A i, j \in 1..Len(languageData) :
              i < j => RawSize(languageData[i].language) >= RawSize(languageData[j].language)
        /\ \A j \in 1..Len(languageData) :
              languageData[j].size = RawSize(languageData[j].language)

\* C22 amended: the normalized output is in descending order of the weighted
\* size, equal weighted sizes in the key order of the mapping, and the size
\* of each entry is the weighted size; it is the raw size when the weights
\* are the defaults (1, 0).
C22_OrderedByWeightedSize ==
    (fetchPc = "returned" /\ normPc = "returned") =>
        /\ \A i, j \in 1..Len(languageData) :
              i < j =>
                /\ WeightedOf(languageData[i].language) >= WeightedOf(languageData[j].language)
                /\ WeightedOf(languageData[i].language) = WeightedOf(languageData[j].language)
                      => KeyIndex(fetched.languages, languageData[i].language)
                            < KeyIndex(fetched.languages, languageData[j].language)
        /\ \A j \in 1..Len(languageData) :
              /\ languageData[j].size = WeightedOf(languageData[j].language)
              /\ (fetchArgs.sizeWeight = 1 /\ fetchArgs.countWeight = 0)
                    => languageData[j].size = RawSize(languageData[j].language)

\* C22 witness: with countWeight 1 a language of raw size 6 in two
\* repositories came out before a language of raw size 7 in one
C22_Witness ==
    /\ fetchPc = "returned"
    /\ normPc = "returned"
    /\ fetchArgs.sizeWeight = 1
    /\ fetchArgs.countWeight = 1
    /\ Len(languageData) = 2
    /\ RawSize(languageData[1].language) = 6
    /\ RawSize(languageData[2].language) = 7
    /\ languageData[1].size = 12

(***************************************************************************)
(* The worker's answers without and after its upstream calls               *)
(***************************************************************************)

\* a name that starts and ends with an alphanumeric character and has only
\* alphanumeric characters and hyphens between
WellFormedName(u) ==
    /\ u # <<>>
    /\ IsAlnum(Head(u))
    /\ IsAlnum(u[Len(u)])
    /\ \A i \in 2..(Len(u) - 1) : IsAlnum(u[i]) \/ u[i] = "-"

\* the words of the phrase stand next to each other in the message
HasPhrase(message, phrase) ==
    \E i, j \in 1..Len(message) : i <= j /\ SubSeq(message, i, j) = phrase

WorkerDone == surface = "worker" /\ pc = "done"

\* the GraphQL response of the run, once it is in
GraphQLAnswered == fetchPc = "returned"

\* C26: the worker issues no request to the GitHub API before the username
\* has passed validation: every request it issued is for a well-formed
\* username, and '/favicon.ico' (204), '/' (200, the help page) and a path
\* whose username part is malformed (400) are answered at once with no
\* upstream call.
C26_NoUpstreamBeforeValidation ==
    surface = "worker" =>
        /\ requests # <<>> =>
              /\ input.path = "user"
              /\ WellFormedName(input.username)
              /\ \A i \in 1..Len(requests) : requests[i].login = input.username
        /\ input.path = "favicon" =>
              (pc = "done" /\ outcome.status = 204 /\ requests = <<>>)
        /\ input.path = "root" =>
              (pc = "done" /\ outcome.status = 200 /\ outcome.reason = "help"
                  /\ requests = <<>>)
        /\ (input.path = "user" /\ ~WellFormedName(input.username)) =>
              (pc = "done" /\ outcome.status = 400 /\ requests = <<>>)

\* C26 witness: the path '/-a' was answered 400 with no upstream call
C26_Witness ==
    /\ WorkerDone
    /\ input.path = "user"
    /\ input.username = <<"-", "a">>
    /\ outcome.status = 400
    /\ requests = <<>>

\* C27: a failure of either upstream call of the worker always produces an
\* error response and never an SVG: upstream 403 yields 429, upstream 401
\* yields 401, a user-lookup 404 yields 404, and any other upstream failure
\* yields 500.
C27_StatusFromUpstreamStatus ==
    WorkerDone =>
        /\ (input.userStatus \notin {0, 200}) =>
              /\ outcome.status = (CASE input.userStatus = 403 -> 429
                                     [] input.userStatus = 401 -> 401
                                     [] input.userStatus = 404 -> 404
                                     [] OTHER -> 500)
              /\ outcome.reason # "svg"
        /\ (GraphQLAnswered /\ ~fetched.ok) =>
              /\ outcome.status = (CASE fetchArgs.response.status = 403 -> 429
                                     [] fetchArgs.response.status = 401 -> 401
                                     [] OTHER -> 500)
              /\ outcome.reason # "svg"

\* C27 amended: a failure of either upstream call of the worker always
\* produces an error response and never an SVG.  A failed user lookup yields
\* 429 on 403, 401 on 401, 404 on 404 and 500 otherwise.  A failed GraphQL
\* query yields 429 on HTTP 403, 401 on HTTP 401 and 500 on another HTTP
\* failure; when GraphQL answers 200 with errors, the status follows the
\* message of the first error: 429 if it contains 'rate limit exceeded',
\* else 401 if it contains 'authentication failed', else 404 if it contains
\* 'not found', else 500.
C27_StatusFromUpstreamFailure ==
    WorkerDone =>
        /\ (input.userStatus \notin {0, 200}) =>
              /\ outcome.status = (CASE input.userStatus = 403 -> 429
                                     [] input.userStatus = 401 -> 401
                                     [] input.userStatus = 404 -> 404
                                     [] OTHER -> 500)
              /\ outcome.reason # "svg"
              /\ requests = <<UserRequest(input.username, input.githubToken)>>
        /\ (GraphQLAnswered /\ ~fetched.ok) =>
              LET response == fetchArgs.response
                  message  == response.message
              IN  /\ outcome.reason # "svg"
                  /\ svg = NoSvg
                  /\ outcome.status =
                        (CASE response.status = 403 -> 429
                           [] response.status = 401 -> 401
                           [] response.status \notin {200, 401, 403} -> 500
                           [] OTHER ->
                                IF HasPhrase(message, <<"rate", "limit", "exceeded">>)
                                THEN 429
                                ELSE IF HasPhrase(message, <<"authentication", "failed">>)
                                THEN 401
                                ELSE IF HasPhrase(message, <<"not", "found">>)
                                THEN 404
                                ELSE 500)

\* C27 witness: GraphQL answered 200 with a rate-limit error and the worker
\* answered 429
C27_Witness ==
    /\ WorkerDone
    /\ GraphQLAnswered
    /\ ~fetched.ok
    /\ fetchArgs.response.status = 200
    /\ fetchArgs.response.message = <<"API", "rate", "limit", "exceeded", "for", "user">>
    /\ outcome.status = 429
    /\ outcome.reason # "svg"

(***************************************************************************)
(* updateReadme without a start marker, and run twice                      *)
(***************************************************************************)

\* C28: when the README does not contain the start marker, updateReadme
\* marks the action failed and does not write the file: the README content
\* is unchanged.
C28_NoStartMarkerNoWrite ==
    (ReadmeReturned /\ readmeFile.readable
        /\ ~HasMarker(readmeCall.readmeContent, startMarker)) =>
        /\ readmeCall.failed
        /\ ~readmeCall.written
        /\ readmeFile.text = readmeCall.readmeContent

\* C28 witness: a README with an end marker and no start marker was left
\* as it was and the call failed
C28_Witness ==
    /\ ReadmeReturned
    /\ readmeCall.calls = 1
    /\ readmeFile.readable
    /\ readmeCall.readmeContent = <<"x", endMarker>>
    /\ readmeCall.failed
    /\ readmeFile.text = <<"x", endMarker>>

\* C29: updateReadme is idempotent: for a README that contains the start
\* marker, with or without an end marker after it, and statistics that
\* contain neither marker, the second run with the same statistics leaves
\* the file as the first run left it, and the file holds both markers.
C29_Idempotent ==
    (readmeCall.calls >= 2 /\ HasMarker(readmeCall.original, startMarker)) =>
        /\ readmeFile.text = readmeCall.readmeContent
        /\ HasMarker(readmeFile.text, startMarker)
        /\ HasMarker(readmeFile.text, endMarker)

(***************************************************************************)
(* The outputs of the action                                               *)
(***************************************************************************)

\* C30: the action's outputs 'stats-html', 'languages-count' and
\* 'repositories-count' are set only when the run succeeded: a run with a
\* failed step, the README update included, is marked failed and has set
\* no outputs.
C30_OutputsOnlyOnSuccess ==
    (surface = "action" /\ pc = "done") =>
        /\ outcome.kind \in {"ok", "failed"}
        /\ outcome.outputsSet => outcome.kind = "ok"
        /\ (fetchPc = "returned" /\ Len(fetched.languages) # 0
               /\ ActionUpdateReadme(input.readme).failed) =>
              (outcome.kind = "failed" /\ ~outcome.outputsSet)

====
